---- MODULE Spec2Model ----
(***************************************************************************)
(* Model of crates/ui/src/components/keybinding.rs: the textual and the    *)
(* token rendering of keystrokes, and the KeyBinding element; and of        *)
(* crates/zed/src/zed/edit_prediction_registry.rs: the registry of editors *)
(* and the assignment of the edit prediction provider.                     *)
(*                                                                         *)
(* Strings are sequences of one-character strings, so that prefixes,       *)
(* suffixes, delimiters and capitalisation are computed, not assumed.      *)
(* Option<T> values that hold a sequence or a record are sequences of      *)
(* length 0 (None) or 1 (Some(x)); Option values that hold a name are the  *)
(* name or "None".                                                         *)
(***************************************************************************)
EXTENDS Integers, Sequences, FiniteSets, TLC

VARIABLES
    platform,   \* PlatformStyle::platform(): the process-wide style
    window,     \* the window: focused handle and keymap lookups for the action
    kb,         \* the KeyBinding value being built (<<>> when there is none)
    call,       \* the call that has just returned (op "idle" when none)
    ret,        \* what that call returned
    settings,             \* all_language_settings(..).edit_predictions.provider
    observer_provider,    \* `provider` as captured by the SettingsStore observer
    subscriber_provider,  \* `provider` as captured by the user-store subscription
    editors,              \* the registry: weak editor handle -> window handle
    editor_state,         \* every editor entity: lifecycle, mode, window, delegate
    window_open,          \* whether the window handle still resolves
    last                  \* the registry handler that ran last, and what it did

\* the state of keybinding.rs
kbVars == <<platform, window, kb, call, ret>>

\* the state of edit_prediction_registry.rs
regVars == <<settings, observer_provider, subscriber_provider, editors, editor_state,
             window_open, last>>

vars == <<kbVars, regVars>>

----------------------------------------------------------------------------
(* Bounds *)

\* longest keystroke sequence handed to text_for_keystrokes
MaxChord == 2

\* number of editors created in a run
MaxEditors == 2

----------------------------------------------------------------------------
(* Characters and strings *)

LowerCase == <<"a", "b", "c", "d", "e", "f", "g", "h", "i", "j", "k", "l", "m", "n", "o", "p", "q", "r", "s", "t", "u", "v", "w", "x", "y", "z">>
UpperCase == <<"A", "B", "C", "D", "E", "F", "G", "H", "I", "J", "K", "L", "M", "N", "O", "P", "Q", "R", "S", "T", "U", "V", "W", "X", "Y", "Z">>

k_left == <<"l", "e", "f", "t">>
k_right == <<"r", "i", "g", "h", "t">>
k_up == <<"u", "p">>
k_down == <<"d", "o", "w", "n">>
k_backspace == <<"b", "a", "c", "k", "s", "p", "a", "c", "e">>
k_delete == <<"d", "e", "l", "e", "t", "e">>
k_return == <<"r", "e", "t", "u", "r", "n">>
k_enter == <<"e", "n", "t", "e", "r">>
k_tab == <<"t", "a", "b">>
k_space == <<"s", "p", "a", "c", "e">>
k_escape == <<"e", "s", "c", "a", "p", "e">>
k_pagedown == <<"p", "a", "g", "e", "d", "o", "w", "n">>
k_pageup == <<"p", "a", "g", "e", "u", "p">>
k_shift == <<"s", "h", "i", "f", "t">>
k_control == <<"c", "o", "n", "t", "r", "o", "l">>
k_platform == <<"p", "l", "a", "t", "f", "o", "r", "m">>
k_function == <<"f", "u", "n", "c", "t", "i", "o", "n">>
k_alt == <<"a", "l", "t">>
k_home == <<"h", "o", "m", "e">>
k_c == <<"c">>
k_minus == <<"-">>
k_empty == <<>>

w_Fn == <<"F", "n">>
w_Control == <<"C", "o", "n", "t", "r", "o", "l">>
w_Ctrl == <<"C", "t", "r", "l">>
w_Command == <<"C", "o", "m", "m", "a", "n", "d">>
w_Super == <<"S", "u", "p", "e", "r">>
w_Win == <<"W", "i", "n">>
w_Option == <<"O", "p", "t", "i", "o", "n">>
w_Alt == <<"A", "l", "t">>
w_Shift == <<"S", "h", "i", "f", "t">>
w_PageUp == <<"P", "a", "g", "e", "U", "p">>
w_PageDown == <<"P", "a", "g", "e", "D", "o", "w", "n">>

\* the key names the calls are tried on: every key of icon_for_key, the two
\* special cases of keystroke_text, ordinary keys, the delimiter itself as a
\* key, and the empty string
Keys ==
    { k_left, k_right, k_up, k_down, k_backspace, k_delete, k_return, k_enter,
      k_tab, k_space, k_escape, k_pagedown, k_pageup, k_shift, k_control,
      k_platform, k_function, k_alt, k_home, k_c, k_minus, k_empty }

----------------------------------------------------------------------------
(* Types *)

PlatformStyle == {"Mac", "Linux", "Windows"}

ModifierNames == {"function", "control", "alt", "platform", "shift"}

\* gpui::Modifiers: five independent flags (32 values)
Modifiers == [ModifierNames -> BOOLEAN]

NoModifiers == [n \in ModifierNames |-> FALSE]

Mods(S) == [n \in ModifierNames |-> n \in S]

Enabled(modifiers) == {n \in ModifierNames : modifiers[n]}

\* Option<Color> as KeyBinding passes it: None or Some(Color::Disabled)
Colors == {"None", "Disabled"}

\* Option<AbsoluteLength>
Sizes == {"None", "Custom"}

\* Keystroke / KeybindingKeystroke, by what modifiers() and key() return
Keystroke(modifiers, key) == [modifiers |-> modifiers, key |-> key]

----------------------------------------------------------------------------
(* util::capitalize and the per-modifier words of keystroke_text *)

to_uppercase(c) ==
    IF \E i \in 1..Len(LowerCase) : LowerCase[i] = c
    THEN UpperCase[CHOOSE i \in 1..Len(LowerCase) : LowerCase[i] = c]
    ELSE c

capitalize(str) ==
    IF str = <<>> THEN <<>> ELSE <<to_uppercase(Head(str))>> \o Tail(str)

delimiter == <<"-">>

control_text(platform_style) ==
    IF platform_style = "Mac" THEN w_Control ELSE w_Ctrl

platform_text_super(platform_style) ==
    IF platform_style = "Mac" THEN w_Command ELSE w_Super

platform_text(platform_style) ==
    CASE platform_style = "Mac" -> w_Command
      [] platform_style = "Linux" -> w_Super
      [] platform_style = "Windows" -> w_Win

alt_text(platform_style) ==
    IF platform_style = "Mac" THEN w_Option ELSE w_Alt

key_label_capitalize_only(key) == capitalize(key)

key_label(key) ==
    CASE key = k_pageup -> w_PageUp
      [] key = k_pagedown -> w_PageDown
      [] OTHER -> capitalize(key)

keystroke_text(modifiers, key, platform_style) ==
    LET t0 == <<>>
        t1 == IF modifiers["function"] THEN t0 \o w_Fn \o delimiter ELSE t0
        t2 == IF modifiers["control"]
              THEN t1 \o control_text(platform_style) \o delimiter ELSE t1
        t3 == IF modifiers["platform"]
              THEN t2 \o platform_text(platform_style) \o delimiter ELSE t2
        t4 == IF modifiers["alt"]
              THEN t3 \o alt_text(platform_style) \o delimiter ELSE t3
        t5 == IF modifiers["shift"] THEN t4 \o w_Shift \o delimiter ELSE t4
    IN  t5 \o key_label(key)

\* itertools' join: the first item, then the separator before each later item
RECURSIVE join(_, _)
join(items, sep) ==
    IF items = <<>> THEN <<>>
    ELSE IF Len(items) = 1 THEN items[1]
    ELSE join(SubSeq(items, 1, Len(items) - 1), sep) \o sep \o items[Len(items)]

chord_separator == <<" ">>

text_for_keystrokes_reversed(keystrokes, platform_style) ==
    join([i \in 1..Len(keystrokes) |->
            keystroke_text(keystrokes[Len(keystrokes) + 1 - i].modifiers,
                           keystrokes[Len(keystrokes) + 1 - i].key, platform_style)],
         chord_separator)

\* text_for_keystrokes, with PlatformStyle::platform() passed in
text_for_keystrokes(keystrokes, platform_style) ==
    join([i \in 1..Len(keystrokes) |->
            keystroke_text(keystrokes[i].modifiers, keystrokes[i].key, platform_style)],
         chord_separator)

\* text_for_keybinding_keystrokes, with PlatformStyle::platform() passed in
text_for_keybinding_keystrokes(keystrokes, platform_style) ==
    join([i \in 1..Len(keystrokes) |->
            keystroke_text(keystrokes[i].modifiers, keystrokes[i].key, platform_style)],
         chord_separator)

----------------------------------------------------------------------------
(* Display tokens *)

\* KeyOrIcon of render_modifiers
KeyOf(str) == [tag |-> "Key", key |-> str, icon |-> "None"]
IconOf(icon) == [tag |-> "Icon", key |-> <<>>, icon |-> icon]
Plus == [tag |-> "Plus", key |-> <<>>, icon |-> "None"]

\* Key::new(key, color).size(size)
KeyElement(key, color, size) ==
    [kind |-> "Key", key |-> key, icon |-> "None", color |-> color, size |-> size]

\* KeyIcon::new(icon, color).size(size)
KeyIconElement(icon, color, size) ==
    [kind |-> "KeyIcon", key |-> <<>>, icon |-> icon, color |-> color, size |-> size]

\* "+".into_any_element()
PlusElement ==
    [kind |-> "Str", key |-> <<"+">>, icon |-> "None", color |-> "None", size |-> "None"]

icon_for_key_every_platform(key, platform_style) ==
    CASE key = k_left -> "ArrowLeft"
      [] key = k_right -> "ArrowRight"
      [] key = k_up -> "ArrowUp"
      [] key = k_down -> "ArrowDown"
      [] key = k_backspace -> "Backspace"
      [] key = k_delete -> "Backspace"
      [] key = k_return -> "Return"
      [] key = k_enter -> "Return"
      [] key = k_tab -> "Tab"
      [] key = k_space -> "Space"
      [] key = k_escape -> "Escape"
      [] key = k_pagedown -> "PageDown"
      [] key = k_pageup -> "PageUp"
      [] key = k_shift -> "Shift"
      [] key = k_control -> "Control"
      [] key = k_platform -> "Command"
      [] key = k_function -> "Control"
      [] key = k_alt -> "Option"
      [] OTHER -> "None"

icon_for_key(key, platform_style) ==
    CASE key = k_left -> "ArrowLeft"
      [] key = k_right -> "ArrowRight"
      [] key = k_up -> "ArrowUp"
      [] key = k_down -> "ArrowDown"
      [] key = k_backspace -> "Backspace"
      [] key = k_delete -> "Backspace"
      [] key = k_return -> "Return"
      [] key = k_enter -> "Return"
      [] key = k_tab -> "Tab"
      [] key = k_space -> "Space"
      [] key = k_escape -> "Escape"
      [] key = k_pagedown -> "PageDown"
      [] key = k_pageup -> "PageUp"
      [] key = k_shift /\ platform_style = "Mac" -> "Shift"
      [] key = k_control /\ platform_style = "Mac" -> "Control"
      [] key = k_platform /\ platform_style = "Mac" -> "Command"
      [] key = k_function /\ platform_style = "Mac" -> "Control"
      [] key = k_alt /\ platform_style = "Mac" -> "Option"
      [] OTHER -> "None"

render_key(key, color, platform_style, size) ==
    LET key_icon == icon_for_key(key, platform_style)
    IN  IF key_icon # "None"
        THEN KeyIconElement(key_icon, color, size)
        ELSE KeyElement(capitalize(key), color, size)

\* Modifiers::modified()
modified(modifiers) ==
    modifiers["control"] \/ modifiers["alt"] \/ modifiers["shift"]
        \/ modifiers["platform"] \/ modifiers["function"]

\* the table of render_modifiers
modifier_table(modifiers) ==
    << [enabled |-> modifiers["function"], mac |-> IconOf("Control"),
        linux |-> KeyOf(w_Fn), windows |-> KeyOf(w_Fn)],
       [enabled |-> modifiers["control"], mac |-> IconOf("Control"),
        linux |-> KeyOf(w_Ctrl), windows |-> KeyOf(w_Ctrl)],
       [enabled |-> modifiers["alt"], mac |-> IconOf("Option"),
        linux |-> KeyOf(w_Alt), windows |-> KeyOf(w_Alt)],
       [enabled |-> modifiers["platform"], mac |-> IconOf("Command"),
        linux |-> KeyOf(w_Super), windows |-> KeyOf(w_Win)],
       [enabled |-> modifiers["shift"], mac |-> IconOf("Shift"),
        linux |-> KeyOf(w_Shift), windows |-> KeyOf(w_Shift)] >>

separator_plus_everywhere(platform_style) == <<Plus>>

\* the separator of render_modifiers: None on Mac, Some(Plus) elsewhere
separator(platform_style) ==
    CASE platform_style = "Mac" -> <<>>
      [] platform_style = "Linux" -> <<Plus>>
      [] platform_style = "Windows" -> <<Plus>>

\* itertools::intersperse
RECURSIVE intersperse(_, _)
intersperse(items, sep) ==
    IF Len(items) <= 1 THEN items
    ELSE <<Head(items), sep>> \o intersperse(Tail(items), sep)

\* Iterator::flatten over Option items
RECURSIVE flatten(_)
flatten(items) ==
    IF items = <<>> THEN <<>> ELSE Head(items) \o flatten(Tail(items))

trailing_always(modifiers, platform_style, trailing_separator) ==
    IF trailing_separator THEN <<separator(platform_style)>> ELSE <<>>

\* the chained Option<Option<KeyOrIcon>> of render_modifiers
trailing(modifiers, platform_style, trailing_separator) ==
    IF modified(modifiers) /\ trailing_separator
    THEN <<separator(platform_style)>>
    ELSE <<>>

render_modifiers(modifiers, platform_style, color, size, trailing_separator) ==
    LET IsEnabled(m) == m.enabled
        filtered == SelectSeq(modifier_table(modifiers), IsEnabled)
        platform_keys ==
            [i \in 1..Len(filtered) |->
                CASE platform_style = "Mac" -> <<filtered[i].mac>>
                  [] platform_style = "Linux" -> <<filtered[i].linux>>
                  [] platform_style = "Windows" -> <<filtered[i].windows>>]
        interspersed == intersperse(platform_keys, separator(platform_style))
        chained == interspersed \o trailing(modifiers, platform_style, trailing_separator)
        flat == flatten(chained)
    IN  [i \in 1..Len(flat) |->
            CASE flat[i].tag = "Key" -> KeyElement(flat[i].key, color, size)
              [] flat[i].tag = "Icon" -> KeyIconElement(flat[i].icon, color, size)
              [] flat[i].tag = "Plus" -> PlusElement]

use_text_linux_only(platform_style) == platform_style = "Linux"

use_text(platform_style) == platform_style \in {"Linux", "Windows"}

render_keybinding_keystroke(keystroke, color, size, platform_style) ==
    IF use_text(platform_style)
    THEN <<KeyElement(keystroke_text(keystroke.modifiers, keystroke.key, platform_style),
                      color, size)>>
    ELSE render_modifiers(keystroke.modifiers, platform_style, color, size, TRUE)
            \o <<render_key(keystroke.key, color, platform_style, size)>>

----------------------------------------------------------------------------
(* The KeyBinding element *)

\* focus handles of the window
Handles == {"h1", "h2"}

\* Source::Action { action, focus_handle } for the one action considered
ActionSource(focus_handle) ==
    [tag |-> "Action", focus_handle |-> focus_handle, keystrokes |-> <<>>]

\* Source::Keystrokes { keystrokes }
KeystrokesSource(keystrokes) ==
    [tag |-> "Keystrokes", focus_handle |-> "None", keystrokes |-> keystrokes]

\* KeyBinding::new(action, focus_handle, cx)
new(focus_handle, process_style) ==
    [source |-> ActionSource(focus_handle), size |-> "None",
     platform_style |-> process_style, disabled |-> FALSE]

\* KeyBinding::from_keystrokes(keystrokes, source)
from_keystrokes(keystrokes, process_style) ==
    [source |-> KeystrokesSource(keystrokes), size |-> "None",
     platform_style |-> process_style, disabled |-> FALSE]

\* Window::focused(cx)
focused(w) == w.focused

\* Window::highest_precedence_binding_for_action_in(action, focus)
highest_precedence_binding_for_action_in(w, focus) == w.in_context[focus]

\* Window::highest_precedence_binding_for_action(action)
highest_precedence_binding_for_action(w) == w.wide

\* gpui::Empty.into_any_element()
EmptyElement == [kind |-> "Empty", selector |-> <<>>, children |-> <<>>]

\* the style KeyBinding::render hands to render_keybinding_keystroke
render_platform_style(self, process_style) == process_style

\* the closure render_keybinding of KeyBinding::render
render_keybinding(keystrokes, self, process_style) ==
    LET color == IF self.disabled THEN "Disabled" ELSE "None"
    IN  [kind |-> "KeyBinding",
         selector |-> <<"K", "E", "Y", "_", "B", "I", "N", "D", "I", "N", "G", "-">>
                        \o join([i \in 1..Len(keystrokes) |-> keystrokes[i].key], <<" ">>),
         children |->
            [i \in 1..Len(keystrokes) |->
                render_keybinding_keystroke(keystrokes[i], color, self.size,
                    render_platform_style(self, process_style))]]

resolve_binding_window_first(source, w) ==
    LET focus == IF source.focus_handle # "None" THEN source.focus_handle
                 ELSE focused(w)
        in_context == IF focus # "None"
                      THEN highest_precedence_binding_for_action_in(w, focus)
                      ELSE <<>>
    IN  IF highest_precedence_binding_for_action(w) # <<>>
        THEN highest_precedence_binding_for_action(w)
        ELSE in_context

\* the Option<KeyBinding> that the Action arm of KeyBinding::render maps over
resolve_binding(source, w) ==
    LET focus == IF source.focus_handle # "None" THEN source.focus_handle
                 ELSE focused(w)
        in_context == IF focus # "None"
                      THEN highest_precedence_binding_for_action_in(w, focus)
                      ELSE <<>>
    IN  IF in_context # <<>> THEN in_context
        ELSE highest_precedence_binding_for_action(w)

\* KeyBinding::render(self, window, cx)
render(self, w, process_style) ==
    LET rendered ==
            IF self.source.tag = "Action"
            THEN LET binding == resolve_binding(self.source, w)
                 IN  IF binding # <<>>
                     THEN <<render_keybinding(binding[1], self, process_style)>>
                     ELSE <<>>
            ELSE <<render_keybinding(self.source.keystrokes, self, process_style)>>
    IN  IF rendered # <<>> THEN rendered[1] ELSE EmptyElement

has_binding_any_handle(self, w) ==
    /\ self.source.tag = "Action"
    /\ \/ \E h \in Handles : highest_precedence_binding_for_action_in(w, h) # <<>>
       \/ highest_precedence_binding_for_action(w) # <<>>

\* KeyBinding::has_binding(&self, window)
has_binding(self, w) ==
    IF self.source.tag = "Action" /\ self.source.focus_handle # "None"
    THEN LET in_context ==
                 highest_precedence_binding_for_action_in(w, self.source.focus_handle)
         IN  (IF in_context # <<>> THEN in_context
              ELSE highest_precedence_binding_for_action(w)) # <<>>
    ELSE FALSE

----------------------------------------------------------------------------
(* The edit prediction registry *)

\* EditPredictionProvider, as matched by assign_edit_prediction_provider
Providers == {"None", "Zed"}

EditorIds == 1..MaxEditors

\* the one window handle editors are created in
TheWindow == "w1"

\* an editor entity that does not exist yet
NoEditor ==
    [status |-> "unborn", full |-> FALSE, window |-> "None", eligible |-> FALSE,
     delegate |-> "None", compat_action |-> FALSE, on_release |-> FALSE]

\* an editor entity that has been released
ReleasedEditor == [NoEditor EXCEPT !.status = "released"]

\* a fresh editor: its mode, the window the observer is handed, and whether it
\* has a project and a singleton buffer with a file
FreshEditor(full, win, eligible) ==
    [status |-> "live", full |-> full, window |-> win, eligible |-> eligible,
     delegate |-> "None", compat_action |-> FALSE, on_release |-> FALSE]

\* HashMap::insert
insert(map, key, value) == {x \in map : x[1] # key} \cup {<<key, value>>}

remove_nothing(map, key) == map

\* HashMap::remove
remove(map, key) == {x \in map : x[1] # key}

\* the keys of the registry
keys(map) == {x[1] : x \in map}

\* assign_edit_prediction_provider(editor, provider, ..)
assign_edit_prediction_provider(editor, provider) ==
    CASE provider = "None" -> [editor EXCEPT !.delegate = "None"]
      [] provider = "Zed" ->
           IF editor.eligible THEN [editor EXCEPT !.delegate = "Zed"] ELSE editor

\* the editors for which window.update and editor.update both succeed
updated_editors(map, states, open) ==
    {x[1] : x \in {y \in map : open /\ states[y[1]].status = "live"}}

\* assign_edit_prediction_providers(editors, provider, ..)
assign_edit_prediction_providers(map, provider, states, open) ==
    [e \in EditorIds |->
        IF e \in updated_editors(map, states, open)
        THEN assign_edit_prediction_provider(states[e], provider)
        ELSE states[e]]

provider_changed_always(new_provider, provider) == TRUE

\* the observer's test: new_provider != provider
provider_changed(new_provider, provider) == new_provider # provider

\* what a registry handler did
Did(event, editor, from, provider, assigned) ==
    [event |-> event, editor |-> editor, from |-> from, provider |-> provider,
     assigned |-> assigned]

----------------------------------------------------------------------------
(* State machine *)

Idle == [op |-> "idle"]

\* a window with nothing focused and no binding for the action
NoWindow == [focused |-> "None", in_context |-> [h \in Handles |-> <<>>], wide |-> <<>>]

Init ==
    /\ platform \in PlatformStyle
    /\ window = NoWindow
    /\ kb = <<>>
    /\ call = Idle
    /\ ret = <<>>
    /\ settings \in Providers
    /\ observer_provider = settings
    /\ subscriber_provider = settings
    /\ editors = {}
    /\ editor_state = [e \in EditorIds |-> NoEditor]
    /\ window_open = TRUE
    /\ last = Did("init", 0, settings, settings, {})

\* keystroke_text(modifiers, key, platform_style)
KeystrokeText ==
    /\ call = Idle
    /\ \E modifiers \in Modifiers, key \in Keys, platform_style \in PlatformStyle :
         /\ call' = [op |-> "keystroke_text", modifiers |-> modifiers,
                     key |-> key, platform_style |-> platform_style]
         /\ ret' = keystroke_text(modifiers, key, platform_style)
    /\ UNCHANGED <<platform, window, kb>>
    /\ UNCHANGED regVars

\* the keystrokes that chords are built from
ChordKeystrokes ==
    { Keystroke(Mods({"control"}), k_c),
      Keystroke(Mods({"alt", "platform"}), k_space),
      Keystroke(Mods({"shift"}), k_pageup),
      Keystroke(NoModifiers, k_minus) }

\* the keystroke sequences of length 0..MaxChord
Chords == UNION {[1..n -> ChordKeystrokes] : n \in 0..MaxChord}

\* text_for_keystrokes(keystrokes, cx)
TextForKeystrokes ==
    /\ call = Idle
    /\ \E keystrokes \in Chords :
         /\ call' = [op |-> "text_for_keystrokes", keystrokes |-> keystrokes]
         /\ ret' = text_for_keystrokes(keystrokes, platform)
    /\ UNCHANGED <<platform, window, kb>>
    /\ UNCHANGED regVars

\* text_for_keybinding_keystrokes(keystrokes, cx)
TextForKeybindingKeystrokes ==
    /\ call = Idle
    /\ \E keystrokes \in Chords :
         /\ call' = [op |-> "text_for_keybinding_keystrokes", keystrokes |-> keystrokes]
         /\ ret' = text_for_keybinding_keystrokes(keystrokes, platform)
    /\ UNCHANGED <<platform, window, kb>>
    /\ UNCHANGED regVars

\* render_key(key, color, platform_style, size)
RenderKey ==
    /\ call = Idle
    /\ \E key \in Keys, color \in Colors, platform_style \in PlatformStyle, size \in Sizes :
         /\ call' = [op |-> "render_key", key |-> key, color |-> color,
                     platform_style |-> platform_style, size |-> size]
         /\ ret' = render_key(key, color, platform_style, size)
    /\ UNCHANGED <<platform, window, kb>>
    /\ UNCHANGED regVars

\* render_modifiers(modifiers, platform_style, color, size, trailing_separator)
RenderModifiers ==
    /\ call = Idle
    /\ \E modifiers \in Modifiers, platform_style \in PlatformStyle, color \in Colors,
          size \in Sizes, trailing_separator \in BOOLEAN :
         /\ call' = [op |-> "render_modifiers", modifiers |-> modifiers,
                     platform_style |-> platform_style, color |-> color, size |-> size,
                     trailing_separator |-> trailing_separator]
         /\ ret' = render_modifiers(modifiers, platform_style, color, size,
                                    trailing_separator)
    /\ UNCHANGED <<platform, window, kb>>
    /\ UNCHANGED regVars

\* render_keybinding_keystroke(keystroke, color, size, platform_style)
RenderKeybindingKeystroke ==
    /\ call = Idle
    /\ \E modifiers \in Modifiers, key \in Keys, color \in Colors, size \in Sizes,
          platform_style \in PlatformStyle :
         /\ call' = [op |-> "render_keybinding_keystroke",
                     keystroke |-> Keystroke(modifiers, key), color |-> color,
                     size |-> size, platform_style |-> platform_style]
         /\ ret' = render_keybinding_keystroke(Keystroke(modifiers, key), color, size,
                                               platform_style)
    /\ UNCHANGED <<platform, window, kb>>
    /\ UNCHANGED regVars

\* the caller drops the returned value
Discard ==
    /\ call # Idle
    /\ call' = Idle
    /\ ret' = <<>>
    /\ UNCHANGED <<platform, window, kb>>
    /\ UNCHANGED regVars

Next ==
    \/ KeystrokeText
    \/ TextForKeystrokes
    \/ TextForKeybindingKeystrokes
    \/ RenderKey
    \/ RenderModifiers
    \/ RenderKeybindingKeystroke
    \/ Discard

Spec == Init /\ [][Next]_vars

\* the bindings the keymap may hold for the action
KeymapBindings ==
    { <<Keystroke(Mods({"control"}), k_c)>>,
      <<Keystroke(Mods({"alt", "platform"}), k_space), Keystroke(Mods({"shift"}), k_pageup)>> }

BindingOption == {<<>>} \cup {<<b>> : b \in KeymapBindings}

\* the keystroke lists KeyBinding::from_keystrokes is built from
OwnKeystrokes ==
    { <<>>,
      <<Keystroke(Mods({"platform"}), k_c)>>,
      <<Keystroke(Mods({"control", "alt"}), k_delete), Keystroke(NoModifiers, k_minus)>> }

\* the focus moves to a handle, or away
Focus ==
    /\ call = Idle
    /\ \E h \in Handles \cup {"None"} :
         /\ h # window.focused
         /\ window' = [window EXCEPT !.focused = h]
    /\ UNCHANGED <<platform, kb, call, ret>>
    /\ UNCHANGED regVars

\* the keymap changes what the lookups for the action return
KeymapChanged ==
    /\ call = Idle
    /\ \E in_context \in [Handles -> BindingOption], wide \in BindingOption :
         /\ window' = [window EXCEPT !.in_context = in_context, !.wide = wide]
         /\ window' # window
    /\ UNCHANGED <<platform, kb, call, ret>>
    /\ UNCHANGED regVars

\* KeyBinding::for_action(action, cx)
ForAction ==
    /\ call = Idle
    /\ kb = <<>>
    /\ kb' = <<new("None", platform)>>
    /\ UNCHANGED <<platform, window, call, ret>>
    /\ UNCHANGED regVars

\* KeyBinding::for_action_in(action, focus, cx)
ForActionIn ==
    /\ call = Idle
    /\ kb = <<>>
    /\ \E focus \in Handles : kb' = <<new(focus, platform)>>
    /\ UNCHANGED <<platform, window, call, ret>>
    /\ UNCHANGED regVars

\* KeyBinding::from_keystrokes(keystrokes, source)
FromKeystrokes ==
    /\ call = Idle
    /\ kb = <<>>
    /\ \E keystrokes \in OwnKeystrokes : kb' = <<from_keystrokes(keystrokes, platform)>>
    /\ UNCHANGED <<platform, window, call, ret>>
    /\ UNCHANGED regVars

\* KeyBinding::platform_style(self, platform_style)
SetPlatformStyle ==
    /\ call = Idle
    /\ kb # <<>>
    /\ \E platform_style \in PlatformStyle :
         /\ platform_style # kb[1].platform_style
         /\ kb' = <<[kb[1] EXCEPT !.platform_style = platform_style]>>
    /\ UNCHANGED <<platform, window, call, ret>>
    /\ UNCHANGED regVars

\* KeyBinding::size(self, size)
SetSize ==
    /\ call = Idle
    /\ kb # <<>>
    /\ kb[1].size = "None"
    /\ kb' = <<[kb[1] EXCEPT !.size = "Custom"]>>
    /\ UNCHANGED <<platform, window, call, ret>>
    /\ UNCHANGED regVars

\* KeyBinding::disabled(self, disabled)
SetDisabled ==
    /\ call = Idle
    /\ kb # <<>>
    /\ \E disabled \in BOOLEAN :
         /\ disabled # kb[1].disabled
         /\ kb' = <<[kb[1] EXCEPT !.disabled = disabled]>>
    /\ UNCHANGED <<platform, window, call, ret>>
    /\ UNCHANGED regVars

\* KeyBinding::has_binding(&self, window)
HasBinding ==
    /\ call = Idle
    /\ kb # <<>>
    /\ call' = [op |-> "has_binding", self |-> kb[1], window |-> window]
    /\ ret' = has_binding(kb[1], window)
    /\ UNCHANGED <<platform, window, kb>>
    /\ UNCHANGED regVars

\* KeyBinding::render(self, window, cx): the element is consumed
Render ==
    /\ call = Idle
    /\ kb # <<>>
    /\ call' = [op |-> "render", self |-> kb[1], window |-> window]
    /\ ret' = render(kb[1], window, platform)
    /\ kb' = <<>>
    /\ UNCHANGED <<platform, window>>
    /\ UNCHANGED regVars

NextKeyBinding ==
    \/ Focus
    \/ KeymapChanged
    \/ ForAction
    \/ ForActionIn
    \/ FromKeystrokes
    \/ SetPlatformStyle
    \/ SetSize
    \/ SetDisabled
    \/ HasBinding
    \/ Render
    \/ Discard

SpecKeyBinding == Init /\ [][NextKeyBinding]_vars

----------------------------------------------------------------------------
(* The handlers that init of edit_prediction_registry.rs installs *)

\* an editor is created: the observe_new callback
NewEditor ==
    /\ \E e \in EditorIds, full \in BOOLEAN, eligible \in BOOLEAN,
          win \in {"None"} \cup (IF window_open THEN {TheWindow} ELSE {}) :
         /\ editor_state[e].status = "unborn"
         /\ \A d \in EditorIds : d < e => editor_state[d].status # "unborn"
         /\ LET fresh == FreshEditor(full, win, eligible)
                compat == [fresh EXCEPT !.compat_action = TRUE]
                hooked == [compat EXCEPT !.on_release = TRUE]
            IN  IF ~full
                THEN /\ editor_state' = [editor_state EXCEPT ![e] = fresh]
                     /\ editors' = editors
                     /\ last' = Did("new", e, settings, settings, {})
                ELSE IF win = "None"
                THEN /\ editor_state' = [editor_state EXCEPT ![e] = compat]
                     /\ editors' = editors
                     /\ last' = Did("new", e, settings, settings, {})
                ELSE /\ editors' = insert(editors, e, win)
                     /\ editor_state' =
                          [editor_state EXCEPT
                             ![e] = assign_edit_prediction_provider(hooked, settings)]
                     /\ last' = Did("new", e, settings, settings, {e})
    /\ UNCHANGED <<settings, observer_provider, subscriber_provider, window_open>>
    /\ UNCHANGED kbVars

\* an editor is released: its on_release callback, if it has one
ReleaseEditor ==
    /\ \E e \in EditorIds :
         /\ editor_state[e].status = "live"
         /\ editors' = IF editor_state[e].on_release THEN remove(editors, e) ELSE editors
         /\ editor_state' = [editor_state EXCEPT ![e] = ReleasedEditor]
         /\ last' = Did("release", e, settings, settings, {})
    /\ UNCHANGED <<settings, observer_provider, subscriber_provider, window_open>>
    /\ UNCHANGED kbVars

\* the settings store changes: the observe_global::<SettingsStore> callback
SettingsChanged ==
    /\ \E new_setting \in Providers :
         /\ settings' = new_setting
         /\ LET new_provider == new_setting
            IN  IF provider_changed(new_provider, observer_provider)
                THEN /\ observer_provider' = new_provider
                     /\ editor_state' =
                          assign_edit_prediction_providers(editors, new_provider,
                                                           editor_state, window_open)
                     /\ last' = Did("settings", 0, observer_provider, new_provider,
                                    updated_editors(editors, editor_state, window_open))
                ELSE /\ observer_provider' = observer_provider
                     /\ editor_state' = editor_state
                     /\ last' = Did("settings", 0, observer_provider, new_provider, {})
    /\ UNCHANGED <<subscriber_provider, editors, window_open>>
    /\ UNCHANGED kbVars

\* the user store emits PrivateUserInfoUpdated: the subscription's callback
PrivateUserInfoUpdated ==
    /\ editor_state' =
         assign_edit_prediction_providers(editors, subscriber_provider, editor_state,
                                          window_open)
    /\ last' = Did("user_info", 0, subscriber_provider, subscriber_provider,
                   updated_editors(editors, editor_state, window_open))
    /\ UNCHANGED <<settings, observer_provider, subscriber_provider, editors, window_open>>
    /\ UNCHANGED kbVars

\* the window is closed: its handle no longer resolves
CloseWindow ==
    /\ window_open
    /\ window_open' = FALSE
    /\ last' = Did("close", 0, settings, settings, {})
    /\ UNCHANGED <<settings, observer_provider, subscriber_provider, editors,
                   editor_state>>
    /\ UNCHANGED kbVars

NextRegistry ==
    \/ NewEditor
    \/ ReleaseEditor
    \/ SettingsChanged
    \/ PrivateUserInfoUpdated
    \/ CloseWindow

SpecRegistry == Init /\ [][NextRegistry]_vars

----------------------------------------------------------------------------
(* What the claims say, stated independently of the operators above *)

\* the modifier words the specification's table gives
ClaimWord(name, platform_style) ==
    CASE name = "function" -> <<"F", "n">>
      [] name = "control" ->
           IF platform_style = "Mac" THEN <<"C", "o", "n", "t", "r", "o", "l">>
           ELSE <<"C", "t", "r", "l">>
      [] name = "alt" ->
           IF platform_style = "Mac" THEN <<"O", "p", "t", "i", "o", "n">>
           ELSE <<"A", "l", "t">>
      [] name = "platform" ->
           IF platform_style = "Mac" THEN <<"C", "o", "m", "m", "a", "n", "d">>
           ELSE IF platform_style = "Linux" THEN <<"S", "u", "p", "e", "r">>
           ELSE <<"W", "i", "n">>
      [] name = "shift" -> <<"S", "h", "i", "f", "t">>

\* the key label the specification gives
ClaimKeyLabel(key) ==
    IF key = <<"p", "a", "g", "e", "u", "p">> THEN <<"P", "a", "g", "e", "U", "p">>
    ELSE IF key = <<"p", "a", "g", "e", "d", "o", "w", "n">>
    THEN <<"P", "a", "g", "e", "D", "o", "w", "n">>
    ELSE IF key = <<>> THEN <<>>
    ELSE <<to_uppercase(key[1])>> \o SubSeq(key, 2, Len(key))

\* the fixed sequence the specification states for the modifiers
ClaimOrder == <<"function", "control", "alt", "platform", "shift">>

\* the words of the enabled modifiers, in the order `order`
WordsInOrder(order, modifiers, platform_style) ==
    LET IsOn(n) == modifiers[n]
        on == SelectSeq(order, IsOn)
    IN  [i \in 1..Len(on) |-> ClaimWord(on[i], platform_style)]

\* the pieces of t that end with a "-"; a remainder without one is a last piece
RECURSIVE SplitDash(_, _)
SplitDash(t, acc) ==
    IF t = <<>> THEN (IF acc = <<>> THEN <<>> ELSE <<acc>>)
    ELSE IF Head(t) = "-" THEN <<acc>> \o SplitDash(Tail(t), <<>>)
    ELSE SplitDash(Tail(t), Append(acc, Head(t)))

\* the text in front of the last n characters of t
DropLast(t, n) == IF n >= Len(t) THEN <<>> ELSE SubSeq(t, 1, Len(t) - n)

\* the last n characters of t
TakeLast(t, n) == IF n >= Len(t) THEN t ELSE SubSeq(t, Len(t) - n + 1, Len(t))

\* the modifier part of a keystroke_text result
ModifierPart(t, key) == DropLast(t, Len(ClaimKeyLabel(key)))

IsKeystrokeTextCall == call.op = "keystroke_text"

\* C1 (as stated): the modifier words of keystroke_text appear in the
\* sequence function, control, alt, platform, shift, restricted to the
\* enabled modifiers.
C1_OrderFnCtrlAltPlatformShift ==
    IsKeystrokeTextCall =>
        SplitDash(ModifierPart(ret, call.key), <<>>)
            = WordsInOrder(ClaimOrder, call.modifiers, call.platform_style)

\* C2: keystroke_text emits, for each enabled modifier, exactly its platform
\* word immediately followed by one "-", and nothing for a disabled modifier;
\* {platform}+"c" gives Command-C / Super-C / Win-C and {control, alt}+"delete"
\* gives Control-Option-Delete / Ctrl-Alt-Delete / Ctrl-Alt-Delete.
C2_ModifierWords ==
    IsKeystrokeTextCall =>
        LET part == ModifierPart(ret, call.key)
            segs == SplitDash(part, <<>>)
            on == Enabled(call.modifiers)
            style == call.platform_style
        IN  /\ part = <<>> \/ part[Len(part)] = "-"
            /\ Len(segs) = Cardinality(on)
            /\ {segs[i] : i \in 1..Len(segs)} = {ClaimWord(n, style) : n \in on}
            /\ (call.modifiers = Mods({"platform"}) /\ call.key = <<"c">>) =>
                 ret = (CASE style = "Mac" -> <<"C", "o", "m", "m", "a", "n", "d", "-", "C">>
                          [] style = "Linux" -> <<"S", "u", "p", "e", "r", "-", "C">>
                          [] style = "Windows" -> <<"W", "i", "n", "-", "C">>)
            /\ (call.modifiers = Mods({"control", "alt"})
                  /\ call.key = <<"d", "e", "l", "e", "t", "e">>) =>
                 ret = (IF style = "Mac"
                        THEN <<"C", "o", "n", "t", "r", "o", "l", "-",
                               "O", "p", "t", "i", "o", "n", "-",
                               "D", "e", "l", "e", "t", "e">>
                        ELSE <<"C", "t", "r", "l", "-", "A", "l", "t", "-",
                               "D", "e", "l", "e", "t", "e">>)

\* C2 witness: a call on Windows with every modifier enabled has returned
C2_Witness ==
    /\ IsKeystrokeTextCall
    /\ call.platform_style = "Windows"
    /\ Enabled(call.modifiers) = ModifierNames
    /\ Len(ret) > 0

\* C3: for a non-empty key the result of keystroke_text ends with the key
\* label and nothing follows it; the label is PageUp for pageup, PageDown for
\* pagedown, otherwise the key with its first character uppercased, whatever
\* the platform style and the modifiers.
C3_EndsWithKeyLabel ==
    (IsKeystrokeTextCall /\ call.key # <<>>) =>
        LET label == ClaimKeyLabel(call.key)
            on == Enabled(call.modifiers)
            widths == [n \in ModifierNames |->
                         IF n \in on THEN Len(ClaimWord(n, call.platform_style)) + 1
                         ELSE 0]
        IN  /\ Len(ret) >= Len(label)
            /\ TakeLast(ret, Len(label)) = label
            /\ Len(ret) - Len(label)
                 = widths["function"] + widths["control"] + widths["alt"]
                     + widths["platform"] + widths["shift"]
            /\ ret = ModifierPart(ret, call.key) \o label
            /\ \A m \in Modifiers, s \in PlatformStyle :
                 TakeLast(keystroke_text(m, call.key, s), Len(label)) = label

\* C3 witness: shift-pageup has been formatted as Shift-PageUp
C3_Witness ==
    /\ IsKeystrokeTextCall
    /\ call.key = <<"p", "a", "g", "e", "u", "p">>
    /\ call.modifiers = Mods({"shift"})
    /\ ret = <<"S", "h", "i", "f", "t", "-", "P", "a", "g", "e", "U", "p">>

IsChordTextCall ==
    call.op \in {"text_for_keystrokes", "text_for_keybinding_keystrokes"}

\* the keystroke_text results of a chord under the process-wide style
ChordTexts(keystrokes) ==
    [i \in 1..Len(keystrokes) |->
        keystroke_text(keystrokes[i].modifiers, keystrokes[i].key, platform)]

\* where the i-th text starts in the joined string, less one
RECURSIVE ChordOffset(_, _)
ChordOffset(texts, i) ==
    IF i <= 1 THEN 0 ELSE ChordOffset(texts, i - 1) + Len(texts[i - 1]) + 1

\* C4: text_for_keystrokes and text_for_keybinding_keystrokes return the
\* keystroke_text of each keystroke, in sequence order, with exactly one space
\* between consecutive results and none leading or trailing; the empty
\* sequence gives the empty string.
C4_JoinedBySingleSpace ==
    IsChordTextCall =>
        LET texts == ChordTexts(call.keystrokes)
            n == Len(texts)
        IN  /\ n = 0 => ret = <<>>
            /\ n > 0 => /\ Len(ret) = ChordOffset(texts, n) + Len(texts[n])
                        /\ ret[1] # " "
                        /\ ret[Len(ret)] # " "
            /\ \A i \in 1..n :
                 SubSeq(ret, ChordOffset(texts, i) + 1,
                        ChordOffset(texts, i) + Len(texts[i])) = texts[i]
            /\ \A i \in 1..(n - 1) :
                 ret[ChordOffset(texts, i) + Len(texts[i]) + 1] = " "

\* C4 witness: a chord of two different keystrokes has been formatted
C4_Witness ==
    /\ IsChordTextCall
    /\ Len(call.keystrokes) = 2
    /\ call.keystrokes[1] # call.keystrokes[2]
    /\ \E i \in 1..Len(ret) : ret[i] = " "

IsSeparatorToken(token) == token.kind = "Str"
IsTextToken(token) == token.kind = "Key"
IsIconToken(token) == token.kind = "KeyIcon"

\* C6: on Linux and Windows render_keybinding_keystroke returns exactly one
\* token, a Text token holding keystroke_text of the same inputs, and no Icon
\* token and no Plus separator.
C6_TextPathSingleToken ==
    (call.op = "render_keybinding_keystroke"
        /\ call.platform_style \in {"Linux", "Windows"}) =>
        /\ Len(ret) = 1
        /\ IsTextToken(ret[1])
        /\ ret[1].key = keystroke_text(call.keystroke.modifiers, call.keystroke.key,
                                       call.platform_style)
        /\ \A i \in 1..Len(ret) : ~IsIconToken(ret[i]) /\ ~IsSeparatorToken(ret[i])

\* C6 witness: ctrl-alt-delete rendered for Windows as the text Ctrl-Alt-Delete
C6_Witness ==
    /\ call.op = "render_keybinding_keystroke"
    /\ call.platform_style = "Windows"
    /\ call.keystroke = Keystroke(Mods({"control", "alt"}), <<"d", "e", "l", "e", "t", "e">>)
    /\ Len(ret) = 1
    /\ ret[1].key = <<"C", "t", "r", "l", "-", "A", "l", "t", "-", "D", "e", "l", "e", "t", "e">>

\* the Mac glyph the specification gives for a modifier
ClaimMacIcon(name) ==
    CASE name = "function" -> "Control"
      [] name = "control" -> "Control"
      [] name = "alt" -> "Option"
      [] name = "platform" -> "Command"
      [] name = "shift" -> "Shift"

\* the enabled modifiers in the specification's fixed order
EnabledInOrder(modifiers) ==
    LET IsOn(n) == modifiers[n] IN SelectSeq(ClaimOrder, IsOn)

\* C7: on Mac render_keybinding_keystroke returns one Icon token per enabled
\* modifier, in the order function, control, alt, platform, shift, with the
\* icons Control, Control, Option, Command, Shift, then exactly one key token
\* as the last element, and no separator token; its length is the number of
\* enabled modifiers plus one.
C7_MacIconsThenKey ==
    (call.op = "render_keybinding_keystroke" /\ call.platform_style = "Mac") =>
        LET on == EnabledInOrder(call.keystroke.modifiers)
            k == Len(on)
        IN  /\ Len(ret) = k + 1
            /\ \A i \in 1..k : /\ IsIconToken(ret[i])
                               /\ ret[i].icon = ClaimMacIcon(on[i])
            /\ \A i \in 1..Len(ret) : ~IsSeparatorToken(ret[i])
            /\ ret[k + 1] = render_key(call.keystroke.key, call.color, "Mac", call.size)

\* C7 witness: a Mac keystroke with all five modifiers and a text key
C7_Witness ==
    /\ call.op = "render_keybinding_keystroke"
    /\ call.platform_style = "Mac"
    /\ Enabled(call.keystroke.modifiers) = ModifierNames
    /\ call.keystroke.key = <<"c">>
    /\ Len(ret) = 6
    /\ ret[3].icon = "Option"
    /\ ret[4].icon = "Command"

\* C8: the tokens of render_modifiers never start with a separator and never
\* hold two adjacent separators; on Linux and Windows there is exactly one
\* Plus between consecutive modifier tokens and one trailing Plus if and only
\* if a modifier is enabled and trailing_separator is true; on Mac there is no
\* separator; with no modifier enabled the sequence is empty.
C8_Separators ==
    call.op = "render_modifiers" =>
        LET k == Cardinality(Enabled(call.modifiers))
            seps == {i \in 1..Len(ret) : IsSeparatorToken(ret[i])}
            wantTrailing == k >= 1 /\ call.trailing_separator
        IN  /\ k = 0 => ret = <<>>
            /\ Len(ret) > 0 => ~IsSeparatorToken(ret[1])
            /\ \A i \in 1..(Len(ret) - 1) :
                 ~(IsSeparatorToken(ret[i]) /\ IsSeparatorToken(ret[i + 1]))
            /\ call.platform_style = "Mac" => seps = {} /\ Len(ret) = k
            /\ (call.platform_style # "Mac" /\ k >= 1) =>
                 /\ Len(ret) = (2 * k - 1) + (IF wantTrailing THEN 1 ELSE 0)
                 /\ \A i \in 1..k : ~IsSeparatorToken(ret[2 * i - 1])
                 /\ \A i \in 1..(k - 1) : ret[2 * i] = PlusElement
                 /\ IsSeparatorToken(ret[Len(ret)]) <=> wantTrailing

\* C8 witness: two modifiers rendered for Linux with a trailing separator
C8_Witness ==
    /\ call.op = "render_modifiers"
    /\ call.platform_style = "Linux"
    /\ call.trailing_separator
    /\ Cardinality(Enabled(call.modifiers)) = 2
    /\ Len(ret) = 4

\* the icon the specification's table gives for a key ("None": no mapping)
ClaimKeyIcon(key, platform_style) ==
    LET table ==
            << <<k_left, "ArrowLeft">>, <<k_right, "ArrowRight">>, <<k_up, "ArrowUp">>,
               <<k_down, "ArrowDown">>, <<k_backspace, "Backspace">>,
               <<k_delete, "Backspace">>, <<k_return, "Return">>, <<k_enter, "Return">>,
               <<k_tab, "Tab">>, <<k_space, "Space">>, <<k_escape, "Escape">>,
               <<k_pagedown, "PageDown">>, <<k_pageup, "PageUp">> >>
        macOnly ==
            << <<k_shift, "Shift">>, <<k_control, "Control">>, <<k_platform, "Command">>,
               <<k_function, "Control">>, <<k_alt, "Option">> >>
        Find(t) == IF \E i \in 1..Len(t) : t[i][1] = key
                   THEN t[CHOOSE i \in 1..Len(t) : t[i][1] = key][2]
                   ELSE "None"
    IN  IF Find(table) # "None" THEN Find(table)
        ELSE IF platform_style = "Mac" THEN Find(macOnly)
        ELSE "None"

\* C9: render_key emits an Icon token when the key has an icon mapping (the
\* modifier-name keys on Mac only) and otherwise a Text token holding the
\* capitalized key; it returns a token for every input.
C9_KeyTokenTotal ==
    call.op = "render_key" =>
        LET icon == ClaimKeyIcon(call.key, call.platform_style)
        IN  /\ IsIconToken(ret) \/ IsTextToken(ret)
            /\ icon # "None" => IsIconToken(ret) /\ ret.icon = icon
            /\ icon = "None" =>
                 /\ IsTextToken(ret)
                 /\ ret.key = (IF call.key = <<>> THEN <<>>
                               ELSE <<to_uppercase(call.key[1])>>
                                       \o SubSeq(call.key, 2, Len(call.key)))
            /\ (call.platform_style # "Mac"
                  /\ call.key \in {k_shift, k_control, k_platform, k_function, k_alt}) =>
                 IsTextToken(ret)

\* C9 witness: the key named "shift" rendered for Linux as the text Shift
C9_Witness ==
    /\ call.op = "render_key"
    /\ call.platform_style = "Linux"
    /\ call.key = <<"s", "h", "i", "f", "t">>
    /\ IsTextToken(ret)
    /\ ret.key = <<"S", "h", "i", "f", "t">>

IsRenderCall == call.op = "render"

\* the keystrokes KeyBinding::render laid out (when it laid out any)
RenderedKeystrokes ==
    IF call.self.source.tag = "Keystrokes" THEN call.self.source.keystrokes
    ELSE resolve_binding(call.self.source, call.window)[1]

\* the element lays out `keystrokes` with the tokens of `style`
LaysOut(element, keystrokes, self, style) ==
    /\ element.kind = "KeyBinding"
    /\ element.children =
         [i \in 1..Len(keystrokes) |->
            render_keybinding_keystroke(keystrokes[i],
                IF self.disabled THEN "Disabled" ELSE "None", self.size, style)]

\* C5 (as stated): the tokens KeyBinding::render produces are those of
\* render_keybinding_keystroke called with the KeyBinding's own platform_style
\* field: the override set through platform_style(...), or the process-wide
\* style when none was set.
C5_RendersWithOwnPlatformStyle ==
    (IsRenderCall /\ ret.kind = "KeyBinding") =>
        LaysOut(ret, RenderedKeystrokes, call.self, call.self.platform_style)

\* C10: rendering a KeyBinding always yields an element; an Action source
\* renders the binding of the focus context (the explicit handle, else the
\* focused one), else the window-wide binding, and the empty placeholder if
\* and only if both lookups yield nothing; a Keystrokes source renders its own
\* keystrokes and never the placeholder.
C10_ResolutionOrder ==
    IsRenderCall =>
        LET self == call.self
            w == call.window
            focus == IF self.source.focus_handle # "None"
                     THEN self.source.focus_handle ELSE w.focused
            inContext == IF focus = "None" THEN <<>> ELSE w.in_context[focus]
            Shows(keystrokes) ==
                \E style \in PlatformStyle : LaysOut(ret, keystrokes, self, style)
        IN  /\ ret.kind \in {"KeyBinding", "Empty"}
            /\ self.source.tag = "Action" =>
                 /\ inContext # <<>> => Shows(inContext[1])
                 /\ (inContext = <<>> /\ w.wide # <<>>) => Shows(w.wide[1])
                 /\ ret = EmptyElement <=> (inContext = <<>> /\ w.wide = <<>>)
            /\ self.source.tag = "Keystrokes" =>
                 /\ ret # EmptyElement
                 /\ Shows(self.source.keystrokes)

\* C10 witness: an action without an explicit handle, rendered while the
\* focused handle's context and the window hold different bindings
C10_Witness ==
    /\ IsRenderCall
    /\ call.self.source.tag = "Action"
    /\ call.self.source.focus_handle = "None"
    /\ call.window.focused = "h1"
    /\ call.window.in_context["h1"] # <<>>
    /\ call.window.wide # <<>>
    /\ call.window.wide # call.window.in_context["h1"]
    /\ ret.kind = "KeyBinding"
    /\ Len(ret.children) = Len(call.window.in_context["h1"][1])

IsHasBindingCall == call.op = "has_binding"

\* C14: if has_binding(window) returns true, rendering the same KeyBinding in
\* the same window state produces a non-empty element, resolved through the
\* focus context and then the window; has_binding returns true only for an
\* Action source that carries an explicit focus handle.
C14_HasBindingImpliesRendered ==
    (IsHasBindingCall /\ ret = TRUE) =>
        LET self == call.self
            w == call.window
            element == render(self, w, platform)
            inContext == w.in_context[self.source.focus_handle]
            shown == IF inContext # <<>> THEN inContext[1] ELSE w.wide[1]
        IN  /\ self.source.tag = "Action"
            /\ self.source.focus_handle \in Handles
            /\ element # EmptyElement
            /\ element.kind = "KeyBinding"
            /\ inContext # <<>> \/ w.wide # <<>>
            /\ \E style \in PlatformStyle : LaysOut(element, shown, self, style)

\* C14 witness: has_binding answered true through the window-wide binding
\* alone, for an action with an explicit handle that is not the focused one
C14_Witness ==
    /\ IsHasBindingCall
    /\ ret = TRUE
    /\ call.self.source.focus_handle = "h2"
    /\ call.window.focused = "h1"
    /\ call.window.in_context["h2"] = <<>>
    /\ call.window.in_context["h1"] # <<>>
    /\ call.window.wide # <<>>

\* the editors that exist: created and not yet released
LiveEditors == {e \in EditorIds : editor_state[e].status = "live"}

\* the editors created in full mode with a window and not yet released
FullWindowedEditors ==
    {e \in LiveEditors : editor_state[e].full /\ editor_state[e].window # "None"}

\* the provider is attached to the editor
Attached(e, provider) == editor_state[e].delegate = provider

\* C11 (as stated): a settings change whose provider differs from the
\* previously observed one attaches the new provider to every open editor
\* (created and not yet released), and one that leaves the provider unchanged
\* reassigns no editor.
C11_ReattachesEveryOpenEditor ==
    last.event = "settings" =>
        /\ last.from # last.provider =>
             \A e \in LiveEditors : e \in last.assigned /\ Attached(e, last.provider)
        /\ last.from = last.provider => last.assigned = {}

\* C11 (amended): a settings change whose provider differs from the previously
\* observed one applies assign_edit_prediction_provider with the new provider
\* to exactly the registered editors (full mode, with a window, not released)
\* whose window handle still resolves; that attaches None, and attaches Zed
\* to the editors that have a project and a singleton buffer with a file; a
\* settings change that leaves the provider unchanged reassigns no editor.
C11_ReassignsRegisteredEditors ==
    last.event = "settings" =>
        /\ last.provider = settings
        /\ observer_provider = settings
        /\ last.from # last.provider =>
             /\ last.assigned = {e \in FullWindowedEditors : window_open}
             /\ \A e \in last.assigned :
                  /\ last.provider = "None" => Attached(e, "None")
                  /\ (last.provider = "Zed" /\ editor_state[e].eligible) =>
                       Attached(e, "Zed")
        /\ last.from = last.provider => last.assigned = {}

\* C11 witness: the provider changed to Zed, one registered editor received
\* it and another open editor was not reassigned
C11_Witness ==
    /\ last.event = "settings"
    /\ last.from = "None"
    /\ last.provider = "Zed"
    /\ \E e \in last.assigned : Attached(e, "Zed")
    /\ \E e \in LiveEditors : e \notin last.assigned

\* C12: the provider that the user-store subscription passes to
\* assign_edit_prediction_providers on PrivateUserInfoUpdated is the provider
\* most recently applied by the settings observer (the current settings
\* value), not the one configured when init ran.
C12_UserInfoUsesCurrentProvider ==
    last.event = "user_info" =>
        /\ last.provider = observer_provider
        /\ last.provider = settings

\* C13 (as stated): the registry holds exactly the editors created in full
\* mode with a window and not yet released, a released editor is never in it,
\* and every inserted editor is assigned the provider configured at its
\* creation.
C13_RegistryAndProviderAttached ==
    /\ keys(editors) = FullWindowedEditors
    /\ \A e \in EditorIds : editor_state[e].status = "released" => e \notin keys(editors)
    /\ (last.event = "new" /\ last.editor \in keys(editors)) =>
         Attached(last.editor, settings)

\* C13 (amended): the registry holds exactly the editors created in full mode
\* with a window and not yet released, each under its window handle; an
\* editor is inserted on creation if and only if it is full and has a window;
\* a released editor is never in it; and every inserted editor has
\* assign_edit_prediction_provider applied with the provider configured at its
\* creation, which attaches Zed only if the editor has a project and a
\* singleton buffer with a file.
C13_RegistryExact ==
    /\ keys(editors) = FullWindowedEditors
    /\ \A x \in editors : x[2] = editor_state[x[1]].window
    /\ Cardinality(editors) = Cardinality(keys(editors))
    /\ \A e \in EditorIds : editor_state[e].status = "released" => e \notin keys(editors)
    /\ last.event = "release" => last.editor \notin keys(editors)
    /\ last.event = "new" =>
         LET e == last.editor
             inserted == e \in keys(editors)
         IN  /\ inserted <=> (editor_state[e].full /\ editor_state[e].window # "None")
             /\ inserted =>
                  /\ last.assigned = {e}
                  /\ last.provider = settings
                  /\ Attached(e, IF settings = "Zed" /\ editor_state[e].eligible
                                  THEN "Zed" ELSE "None")
             /\ ~inserted => last.assigned = {} /\ Attached(e, "None")

\* C13 witness: one editor has been released after being registered while a
\* registered editor and an unregistered one are still open
C13_Witness ==
    /\ \E e \in EditorIds : editor_state[e].status = "released"
    /\ last.event = "new"
    /\ last.editor \in keys(editors)
    /\ Attached(last.editor, "Zed")

====
